---- MODULE Spec2Model ----
(***************************************************************************)
(* Model of the ENTSO-E synchronisation pipelines:                         *)
(*   entseo_pipeline.py            per-timestamp records, monthly windows  *)
(*   entseo_pipeline_time_serie.py per-day documents, daily windows        *)
(*                                                                         *)
(* Instants are seconds since 2025-04-01T00:00:00Z.  Numeric values are    *)
(* held in tenths (45.3 is 453), so that float(x) / 10 is exact.           *)
(***************************************************************************)
EXTENDS Integers, Sequences, FiniteSets, TLC

VARIABLES
    variant,      \* which pipeline runs: "monthly" or "daily"
    now,          \* datetime.now(UTC) read at the start of run()
    upstream,     \* the documents the API holds, per zone and window
    store,        \* the MongoDB collection: documents in insertion order
    run,          \* number of the current execution of run()
    pc,           \* position of run(): "zone", "window", "done", "crashed"
    zi,           \* index of the zone being processed
    current,      \* loop variable `current` of run()
    existing,     \* coverage index built at the start of the zone
    gen_data,     \* result of the last fetch_generation
    price_data,   \* result of the last fetch_prices
    merged,       \* records assembled for the last window
    written,      \* records of the last window that reached the store
    windows,      \* windows produced so far in this execution
    faults,       \* transient failures injected so far
    afterFirst,   \* the store as the first execution left it
    document,     \* decoder check: the fetched document
    decoded       \* decoder check: what the decoders made of it

vars == <<variant, now, upstream, store, run, pc, zi, current, existing,
          gen_data, price_data, merged, written, windows, faults,
          afterFirst, document, decoded>>

pipeVars == <<variant, now, upstream, store, run, pc, zi, current, existing,
              gen_data, price_data, merged, written, windows, faults,
              afterFirst>>

-----------------------------------------------------------------------------
(* Bounds *)

MaxPos == 5         \* positions of a Point range over 1..MaxPos
MaxPoints == 1      \* points per Period in the exhaustive decoder inputs
MaxWindows == 3     \* `now` lies within the first MaxWindows windows
MaxRuns == 2        \* executions of run() in a row
MaxFaults == 1      \* transient failures per behaviour

-----------------------------------------------------------------------------
(* Optional XML elements: find() returns None or the element *)

None == <<>>

Some(x) == <<x>>

-----------------------------------------------------------------------------
(* datetime *)

SecondsPerDay == 24 * 60 * 60

IsLeap(y) == (y % 4 = 0 /\ y % 100 # 0) \/ y % 400 = 0

DaysInMonth(y, m) ==
    IF m = 2 THEN (IF IsLeap(y) THEN 29 ELSE 28)
    ELSE IF m \in {4, 6, 9, 11} THEN 30 ELSE 31

RECURSIVE DateFrom(_, _, _)
\* the calendar date d days after the first of month m of year y
DateFrom(y, m, d) ==
    IF d < DaysInMonth(y, m) THEN [year |-> y, month |-> m, day |-> d + 1]
    ELSE IF m = 12 THEN DateFrom(y + 1, 1, d - DaysInMonth(y, m))
    ELSE DateFrom(y, m + 1, d - DaysInMonth(y, m))

\* the calendar date of instant t
DateOf(t) == DateFrom(2025, 4, t \div SecondsPerDay)

RECURSIVE DaysUntil(_, _, _, _)
\* days from the first of (y0, m0) to the first of (y, m)
DaysUntil(y0, m0, y, m) ==
    IF y0 = y /\ m0 = m THEN 0
    ELSE IF m0 = 12 THEN DaysInMonth(y0, m0) + DaysUntil(y0 + 1, 1, y, m)
    ELSE DaysInMonth(y0, m0) + DaysUntil(y0, m0 + 1, y, m)

\* datetime(y, m, d, tzinfo=UTC)
DateTime(y, m, d) == (DaysUntil(2025, 4, y, m) + (d - 1)) * SecondsPerDay

\* dt + timedelta(days=n)
AddDays(t, n) == t + n * SecondsPerDay

\* dt.replace(day=1): the time of day is kept
ReplaceDay1(t) == t - (DateOf(t).day - 1) * SecondsPerDay

\* dt.strftime("%Y%m%d%H%M"): the seconds are dropped
Strftime(t) == [date |-> DateOf(t), minute |-> (t % SecondsPerDay) \div 60]

\* dt.strftime("%Y-%m-%d")
DayStr(t) == DateOf(t)

-----------------------------------------------------------------------------
(* Timestamp texts.  An upstream text such as 2025-06-01T00:00Z is         *)
(* [t |-> instant, z |-> TRUE]; without the Z designator z is FALSE.       *)

\* text.replace("Z", "")
StripZ(text) == [text EXCEPT !.z = FALSE]

\* datetime.fromisoformat(text): aware exactly when the text carries Z
FromIsoformat(text) == [t |-> text.t, aware |-> text.z]

\* dt + timedelta(minutes=n)
AddMinutes(dt, n) == [dt EXCEPT !.t = dt.t + n * 60]

\* dt.isoformat() + "Z": an aware datetime prints its offset
IsoformatZ(dt) ==
    [t |-> dt.t, sfx |-> (IF dt.aware THEN "+00:00" ELSE "") \o "Z"]

\* {"PT15M": 15, "PT60M": 60}.get(resolution, 60)
Interval(resolution) ==
    IF resolution = "PT15M" THEN 15
    ELSE IF resolution = "PT60M" THEN 60
    ELSE 60

\* float(text) of an integer text, in tenths
Float(n) == 10 * n

-----------------------------------------------------------------------------
(* Decoder results: a normal return carries a value, a raise does not *)

Return(v) == [raised |-> FALSE, value |-> v]

Raise == [raised |-> TRUE, value |-> <<>>]

-----------------------------------------------------------------------------
(* A fetched document is [wellformed, series]; a TimeSeries is             *)
(* [ctype, period]; a Period is [start, resolution, points]; a Point is    *)
(* [position, value].  Every element except the list of points is         *)
(* optional.                                                               *)

\* one decoded generation point
GenPoint(v, start_time, resolution, point) ==
    LET pos == point.position[1]
        qty == Float(point.value[1])
        ts == IsoformatZ(AddMinutes(start_time, (pos - 1) * Interval(resolution)))
    IN  IF v = "monthly" THEN <<ts, qty>> ELSE <<ts, qty, resolution>>

RECURSIVE GenPoints(_, _, _, _, _)
\* for point in period.findall("ns:Point"): find(...).text of a missing
\* child is an AttributeError
GenPoints(v, start_time, resolution, points, results) ==
    IF points = <<>> THEN Return(results)
    ELSE LET point == Head(points) IN
         IF point.position = None \/ point.value = None THEN Raise
         ELSE GenPoints(v, start_time, resolution, Tail(points),
                        Append(results, GenPoint(v, start_time, resolution, point)))

RECURSIVE GenSeries(_, _, _)
\* for ts in root.findall(".//ns:TimeSeries")
GenSeries(v, series, results) ==
    IF series = <<>> THEN Return(results)
    ELSE LET ts == Head(series) IN
         IF ts.period = None THEN GenSeries(v, Tail(series), results)
         ELSE LET period == ts.period[1] IN
              IF period.start = None \/ period.resolution = None THEN Raise
              ELSE LET r == GenPoints(v, FromIsoformat(period.start[1]),
                                      period.resolution[1], period.points, results)
                   IN  IF r.raised THEN Raise
                       ELSE GenSeries(v, Tail(series), r.value)

\* the parsing half of fetch_generation
ParseGeneration(v, body) ==
    IF ~body.wellformed THEN Return(<<>>)
    ELSE GenSeries(v, body.series, <<>>)

-----------------------------------------------------------------------------
(* The price results: a dict from label to list, kept in insertion order  *)
(* as a sequence of <<label, list>> pairs                                  *)

EmptyPrices == << <<"A44_A01", <<>> >>, <<"A44_A07", <<>> >> >>

DictHas(d, k) == \E i \in 1..Len(d) : d[i][1] = k

DictGet(d, k) == d[CHOOSE i \in 1..Len(d) : d[i][1] = k][2]

DictAppendTo(d, k, x) ==
    [i \in 1..Len(d) |-> IF d[i][1] = k THEN <<k, Append(d[i][2], x)>> ELSE d[i]]

\* f"A44_{ctype.text}"
PriceLabel(ctype) == "A44_" \o ctype

\* float(val.text) without the division
PriceValueUnscaled(amount) == Float(amount)

\* float(val.text) / 10
PriceValue(amount) == Float(amount) \div 10

RECURSIVE PricePointsKeepZero(_, _, _, _, _, _)
\* the loop of the per-day fetch_prices without its test of value == 0.0
PricePointsKeepZero(v, label, start_time, resolution, points, results) ==
    IF points = <<>> THEN Return(results)
    ELSE LET point == Head(points)
             rest == Tail(points)
         IN
         IF point.position = None \/ point.value = None
         THEN PricePointsKeepZero(v, label, start_time, resolution, rest, results)
         ELSE LET value == PriceValue(point.value[1])
                  ts_point == IsoformatZ(AddMinutes(start_time,
                                  (point.position[1] - 1) * Interval(resolution)))
              IN
              IF v = "monthly"
              THEN PricePointsKeepZero(v, label, start_time, resolution, rest,
                               DictAppendTo(results, label, <<ts_point, value>>))
              ELSE IF ~DictHas(results, label) THEN Raise
              ELSE PricePointsKeepZero(v, label, start_time, resolution, rest,
                               DictAppendTo(results, label,
                                            <<ts_point, value, resolution>>))

RECURSIVE PricePoints(_, _, _, _, _, _)
\* for point in period.findall("ns:Point")
PricePoints(v, label, start_time, resolution, points, results) ==
    IF points = <<>> THEN Return(results)
    ELSE LET point == Head(points)
             rest == Tail(points)
         IN
         IF point.position = None \/ point.value = None
         THEN PricePoints(v, label, start_time, resolution, rest, results)
         ELSE LET value == PriceValue(point.value[1])
                  ts_point == IsoformatZ(AddMinutes(start_time,
                                  (point.position[1] - 1) * Interval(resolution)))
              IN
              IF v = "monthly"
              THEN PricePoints(v, label, start_time, resolution, rest,
                               DictAppendTo(results, label, <<ts_point, value>>))
              ELSE IF value = 0
              THEN PricePoints(v, label, start_time, resolution, rest, results)
              ELSE IF ~DictHas(results, label) THEN Raise   \* KeyError
              ELSE PricePoints(v, label, start_time, resolution, rest,
                               DictAppendTo(results, label,
                                            <<ts_point, value, resolution>>))

RECURSIVE PriceSeries(_, _, _)
\* for ts in root.findall(".//ns:TimeSeries")
PriceSeries(v, series, results) ==
    IF series = <<>> THEN Return(results)
    ELSE LET ts == Head(series) IN
         IF ts.ctype = None THEN PriceSeries(v, Tail(series), results)
         ELSE LET label == PriceLabel(ts.ctype[1])
                  \* only the per-timestamp pipeline adds the label
                  results1 == IF v = "monthly" /\ ~DictHas(results, label)
                              THEN Append(results, <<label, <<>> >>)
                              ELSE results
              IN
              IF ts.period = None THEN PriceSeries(v, Tail(series), results1)
              ELSE LET period == ts.period[1] IN
                   IF period.start = None \/ period.resolution = None THEN Raise
                   ELSE LET r == PricePoints(v, label,
                                     FromIsoformat(StripZ(period.start[1])),
                                     period.resolution[1], period.points, results1)
                        IN  IF r.raised THEN Raise
                            ELSE PriceSeries(v, Tail(series), r.value)

\* the parsing half of fetch_prices
ParsePrices(v, body) ==
    IF ~body.wellformed THEN Return(EmptyPrices)
    ELSE PriceSeries(v, body.series, EmptyPrices)

-----------------------------------------------------------------------------
(* The request half of the fetches.  fault is what the transport does:     *)
(* "none", "transport" (requests raises) or "status" (a non-200 answer).   *)

Faults == {"none", "transport", "status"}

\* fetch_generation
FetchGeneration(v, fault, body) ==
    IF fault = "none" THEN ParseGeneration(v, body)
    ELSE IF v = "monthly" /\ fault = "transport" THEN Raise
    ELSE Return(<<>>)

\* fetch_prices
FetchPrices(v, fault, body) ==
    IF fault = "none" THEN ParsePrices(v, body)
    ELSE IF v = "monthly" /\ fault = "transport" THEN Raise
    ELSE Return(EmptyPrices)

-----------------------------------------------------------------------------
(* Merging.  A dict keyed by timestamp is the sequence of its values in    *)
(* insertion order; every value carries its key in "timestamp".            *)

\* an assignment that keeps the value the record already has for the label
PutFieldFirst(records, ts, base, label, val) ==
    IF \E i \in 1..Len(records) : records[i].timestamp = ts
    THEN [i \in 1..Len(records) |->
            IF records[i].timestamp = ts THEN records[i] @@ (label :> val)
            ELSE records[i]]
    ELSE Append(records, (label :> val) @@ base)

\* d.setdefault(ts, base)[label] = val
PutField(records, ts, base, label, val) ==
    IF \E i \in 1..Len(records) : records[i].timestamp = ts
    THEN [i \in 1..Len(records) |->
            IF records[i].timestamp = ts THEN (label :> val) @@ records[i]
            ELSE records[i]]
    ELSE Append(records, (label :> val) @@ base)

\* ts in existing and label in existing[ts]
Covered(index, ts, label) == ts \in DOMAIN index /\ label \in index[ts]

RECURSIVE MergeListNoSkip(_, _, _, _, _)
\* the loop without its `continue`
MergeListNoSkip(zone, index, label, series, records) ==
    IF series = <<>> THEN records
    ELSE MergeListNoSkip(zone, index, label, Tail(series),
             PutField(records, Head(series)[1],
                      [bidding_zone |-> zone, timestamp |-> Head(series)[1]],
                      label, Head(series)[2]))

RECURSIVE MergeList(_, _, _, _, _)
\* one of the two loops of run() that fill `merged`
MergeList(zone, index, label, series, records) ==
    IF series = <<>> THEN records
    ELSE LET ts == Head(series)[1]
             val == Head(series)[2]
         IN  IF Covered(index, ts, label)
             THEN MergeList(zone, index, label, Tail(series), records)
             ELSE MergeList(zone, index, label, Tail(series),
                      PutField(records, ts,
                               [bidding_zone |-> zone, timestamp |-> ts],
                               label, val))

RECURSIVE MergePrices(_, _, _, _)
\* for label, series in price_data.items()
MergePrices(zone, index, prices, records) ==
    IF prices = <<>> THEN records
    ELSE MergePrices(zone, index, Tail(prices),
             MergeList(zone, index, Head(prices)[1], Head(prices)[2], records))

\* the merge of the per-timestamp run()
MergeRecords(zone, index, generation, prices) ==
    MergePrices(zone, index, prices,
                MergeList(zone, index, "A75_A16_B16", generation, <<>>))

RECURSIVE MergeEntries(_, _, _)
\* one loop of merge_series: merged[res] of an unknown res is a KeyError
MergeEntries(label, entries, m) ==
    IF entries = <<>> THEN Return(m)
    ELSE LET ts == Head(entries)[1]
             val == Head(entries)[2]
             res == Head(entries)[3]
         IN  IF res \notin DOMAIN m THEN Raise
             ELSE MergeEntries(label, Tail(entries),
                      [m EXCEPT ![res] =
                          PutField(m[res], ts, [timestamp |-> ts], label, val)])

RECURSIVE MergePriceEntries(_, _)
\* for label, entries in prices.items()
MergePriceEntries(prices, m) ==
    IF prices = <<>> THEN Return(m)
    ELSE LET r == MergeEntries(Head(prices)[1], Head(prices)[2], m)
         IN  IF r.raised THEN Raise ELSE MergePriceEntries(Tail(prices), r.value)

\* merge_series
merge_series(generation, prices) ==
    LET empty == [res \in {"PT15M", "PT60M"} |-> <<>>]
        g == MergeEntries("A75_A16_B16", generation, empty)
        r == IF g.raised THEN Raise ELSE MergePriceEntries(prices, g.value)
    IN  IF r.raised THEN Raise
        ELSE Return([res \in {x \in DOMAIN r.value : r.value[x] # <<>>} |->
                        r.value[res]])

-----------------------------------------------------------------------------
(* The collection.  A document is a function from field names to values;  *)
(* the ObjectId MongoDB gives an inserted document is not modelled.        *)

Matches(doc, filter) ==
    \A k \in DOMAIN filter : k \in DOMAIN doc /\ doc[k] = filter[k]

\* an upsert that never finds the stored document
UpdateOneInsert(coll, filter, fields) == Append(coll, fields @@ filter)

\* an upsert that replaces the stored document instead of merging into it
UpdateOneReplace(coll, filter, fields) ==
    IF \E i \in 1..Len(coll) : Matches(coll[i], filter)
    THEN [i \in 1..Len(coll) |->
            IF Matches(coll[i], filter) THEN fields @@ filter ELSE coll[i]]
    ELSE Append(coll, fields @@ filter)

\* UpdateOne(filter, {"$set": fields}, upsert=True) and update_one
UpdateOne(coll, filter, fields) ==
    IF \E i \in 1..Len(coll) : Matches(coll[i], filter)
    THEN LET i == CHOOSE j \in 1..Len(coll) :
                     /\ Matches(coll[j], filter)
                     /\ \A h \in 1..(j - 1) : ~Matches(coll[h], filter)
         IN  [coll EXCEPT ![i] = fields @@ coll[i]]
    ELSE Append(coll, fields @@ filter)

\* a filter on the timestamp alone
RecordFilterNoZone(rec) == [timestamp |-> rec.timestamp]

\* the filter run() gives the upsert of a per-timestamp record
RecordFilter(rec) ==
    [bidding_zone |-> rec.bidding_zone, timestamp |-> rec.timestamp]

RECURSIVE BulkWrite(_, _)
\* collection.bulk_write(...) of the first records of the batch, in order
BulkWrite(coll, records) ==
    IF records = <<>> THEN coll
    ELSE BulkWrite(UpdateOne(coll, RecordFilter(Head(records)), Head(records)),
                   Tail(records))

TrackedLabels == {"A75_A16_B16", "A44_A01", "A44_A07"}

RECURSIVE ExistingFields(_, _, _)
\* for doc in cursor: mapping[ts] = keys
ExistingFields(coll, zone, mapping) ==
    IF coll = <<>> THEN mapping
    ELSE LET doc == Head(coll) IN
         IF doc.bidding_zone = zone
         THEN ExistingFields(Tail(coll), zone,
                  (doc.timestamp :> {k \in TrackedLabels : k \in DOMAIN doc})
                      @@ mapping)
         ELSE ExistingFields(Tail(coll), zone, mapping)

\* get_existing_fields_by_timestamp
get_existing_fields_by_timestamp(coll, zone) == ExistingFields(coll, zone, <<>>)

\* day_doc of the per-day run()
DayDoc(zone, day_str, m) ==
    [_id |-> [bidding_zone |-> zone, date |-> day_str],
     bidding_zone |-> zone, date |-> day_str] @@ m

-----------------------------------------------------------------------------
(* Configuration of run() *)

Variants == {"monthly", "daily"}

\* bidding_zones of the entry point (the first two of the per-day list)
Zones == <<"AT", "BE">>

\* start = datetime(2025, 4, 1) and datetime(2025, 6, 1)
Start(v) == IF v = "monthly" THEN DateTime(2025, 4, 1) ELSE DateTime(2025, 6, 1)

\* a month window without replace(day=1)
NextWindowNoReplace(v, cur) ==
    IF v = "monthly" THEN AddDays(cur, 32) ELSE AddDays(cur, 1)

\* a month window that forgets to add window_size
NextWindowStuck(v, cur) ==
    IF v = "monthly" THEN ReplaceDay1(cur) ELSE AddDays(cur, 1)

\* next_month = (current + window_size).replace(day=1) with 32 days;
\* next_day = current + window_size with one day
NextWindow(v, cur) ==
    IF v = "monthly" THEN ReplaceDay1(AddDays(cur, 32)) ELSE AddDays(cur, 1)

Min(a, b) == IF a <= b THEN a ELSE b

-----------------------------------------------------------------------------
(* What the API holds *)

Point(p, a) == [position |-> Some(p), value |-> Some(a)]

Series(c, s, r, pts) ==
    [ctype |-> c,
     period |-> Some([start |-> Some(s), resolution |-> Some(r), points |-> pts])]

Doc(series) == [wellformed |-> TRUE, series |-> series]

Malformed == [wellformed |-> FALSE, series |-> <<>>]

\* the text 2025-06-01T00:00Z
T0Z == [t |-> DateTime(2025, 6, 1), z |-> TRUE]

ContentA ==
    [gen |-> Doc(<< Series(None, T0Z, "PT60M", <<Point(1, 20), Point(2, 30)>>) >>),
     price |-> Doc(<< Series(Some("A01"), T0Z, "PT60M",
                             <<Point(1, 453), Point(2, 0)>>) >>)]

ContentB ==
    [gen |-> Doc(<< Series(None, T0Z, "PT15M", <<Point(1, 25), Point(5, 35)>>) >>),
     price |-> Doc(<< Series(Some("A01"), T0Z, "PT60M", <<Point(1, 460)>>),
                      Series(Some("A13"), T0Z, "PT60M", <<Point(1, 100)>>) >>)]

\* a generation start without the Z designator, a price position twice
ContentC ==
    [gen |-> Doc(<< Series(None, StripZ(T0Z), "PT60M", <<Point(1, 40)>>) >>),
     price |-> Doc(<< Series(Some("A07"), T0Z, "PT15M",
                             <<Point(1, 77), Point(1, 78)>>) >>)]

Catalog == {ContentA, ContentB, ContentC}

RECURSIVE WindowStart(_, _)
\* the start of the n-th window of the sweep
WindowStart(v, n) == IF n = 1 THEN Start(v) ELSE NextWindow(v, WindowStart(v, n - 1))

\* instants within the first n windows, at the given offsets into a window
Nows(v, n, offsets) == {WindowStart(v, w) + off : w \in 1..n, off \in offsets}

-----------------------------------------------------------------------------
(* run() *)

\* number of the window of `zone` that is about to be produced
WindowNo(zone) ==
    Cardinality({i \in 1..Len(windows) : windows[i].zone = zone}) + 1

\* the end of one pass through the loop body
Outcome(crashed, gd, pd, mg, wr, st, nf, next) ==
    /\ faults + nf <= MaxFaults
    /\ faults' = faults + nf
    /\ gen_data' = gd
    /\ price_data' = pd
    /\ merged' = mg
    /\ written' = wr
    /\ store' = st
    /\ pc' = IF crashed THEN "crashed" ELSE "window"
    /\ current' = IF crashed THEN current ELSE next

\* the write of the per-timestamp run(): a bulk_write that fails stops at
\* the failing operation, the ones before it are applied
WriteRecords(g, p, records, nf, next) ==
    IF records = <<>> THEN Outcome(FALSE, g, p, records, <<>>, store, nf, next)
    ELSE \E k \in 0..Len(records) :
            \E done \in {SubSeq(records, 1, k)} :
                Outcome(k < Len(records), g, p, records, done,
                        BulkWrite(store, done),
                        IF k < Len(records) THEN nf + 1 ELSE nf, next)

\* the write of the per-day run()
WriteDay(zone, g, p, m, nf, next) ==
    LET day_doc == DayDoc(zone, DayStr(current), m) IN
    IF DOMAIN m = {} THEN Outcome(FALSE, g, p, m, <<>>, store, nf, next)
    ELSE \/ Outcome(FALSE, g, p, m, <<day_doc>>,
                    UpdateOne(store, [_id |-> day_doc._id], day_doc), nf, next)
         \/ Outcome(TRUE, g, p, m, <<>>, store, nf + 1, next)

\* for zone, eic in bidding_zones.items(): the code before the while loop
BeginZone ==
    /\ pc = "zone"
    /\ pc' = "window"
    /\ current' = Start(variant)
    /\ existing' = IF variant = "monthly"
                   THEN get_existing_fields_by_timestamp(store, Zones[zi])
                   ELSE <<>>
    /\ UNCHANGED <<variant, now, upstream, store, run, zi, gen_data, price_data,
                   merged, written, windows, faults, afterFirst, document, decoded>>

\* the window the loop body is about to process
NewWindow ==
    LET end == Min(NextWindow(variant, current), now)
    IN  [zone |-> Zones[zi], start |-> current, end |-> end,
         period_start |-> Strftime(current), period_end |-> Strftime(end)]

\* one pass through the body of `while current < now`
Window ==
    /\ pc = "window"
    /\ current < now
    /\ \E gf \in Faults, pf \in Faults :
          LET zone == Zones[zi]
              next == NextWindow(variant, current)
              content == upstream[zone][WindowNo(zone)]
              gn == IF gf = "none" THEN 0 ELSE 1
              nf == gn + (IF pf = "none" THEN 0 ELSE 1)
          IN
          /\ windows' = Append(windows, NewWindow)
          /\ \E g \in {FetchGeneration(variant, gf, content.gen)} :
                IF g.raised
                THEN pf = "none"
                     /\ Outcome(TRUE, <<>>, <<>>, <<>>, <<>>, store, gn, next)
                ELSE \E p \in {FetchPrices(variant, pf, content.price)} :
                     IF p.raised
                     THEN Outcome(TRUE, g.value, <<>>, <<>>, <<>>, store, nf, next)
                     ELSE IF variant = "monthly"
                     THEN \E records \in {MergeRecords(zone, existing, g.value, p.value)} :
                             WriteRecords(g.value, p.value, records, nf, next)
                     ELSE \E m \in {merge_series(g.value, p.value)} :
                             IF m.raised
                             THEN Outcome(TRUE, g.value, p.value, <<>>, <<>>, store, nf, next)
                             ELSE WriteDay(zone, g.value, p.value, m.value, nf, next)
    /\ UNCHANGED <<variant, now, upstream, run, zi, existing, afterFirst,
                   document, decoded>>

\* `while current < now` is false: on to the next zone, or run() returns
EndZone ==
    /\ pc = "window"
    /\ ~(current < now)
    /\ IF zi < Len(Zones)
       THEN zi' = zi + 1 /\ pc' = "zone"
       ELSE zi' = zi /\ pc' = "done"
    /\ UNCHANGED <<variant, now, upstream, store, run, current, existing,
                   gen_data, price_data, merged, written, windows, faults,
                   afterFirst, document, decoded>>

\* run() is executed again, with the same `now` and the same upstream
Rerun ==
    /\ pc \in {"done", "crashed"}
    /\ run < MaxRuns
    /\ run' = run + 1
    /\ afterFirst' = IF run = 1 THEN store ELSE afterFirst
    /\ pc' = "zone"
    /\ zi' = 1
    /\ windows' = <<>>
    /\ UNCHANGED <<variant, now, upstream, store, current, existing, gen_data,
                   price_data, merged, written, faults, document, decoded>>

Next == BeginZone \/ Window \/ EndZone \/ Rerun

InitRun ==
    /\ store = <<>>
    /\ run = 1
    /\ pc = "zone"
    /\ zi = 1
    /\ current = Start(variant)
    /\ existing = <<>>
    /\ gen_data = <<>>
    /\ price_data = <<>>
    /\ merged = <<>>
    /\ written = <<>>
    /\ windows = <<>>
    /\ faults = 0
    /\ afterFirst = <<>>
    /\ document = <<>>
    /\ decoded = <<>>

ZoneSet == {Zones[i] : i \in 1..Len(Zones)}

DataWindows == 2    \* windows of the sweep with every content

\* the documents of f, k windows later
Rotate(f, k) == [i \in DOMAIN f |-> f[((i - 1 + k) % Len(f)) + 1]]

\* `now` is half a day into the last window; the first zone has any
\* content of the catalog in each window, the other zones have the same
\* documents, in the same windows or one window later
Init ==
    /\ variant \in Variants
    /\ now = WindowStart(variant, DataWindows) + 12 * 3600
    /\ \E f \in [1..DataWindows -> Catalog], k \in {0, 1} :
          upstream = [z \in ZoneSet |-> IF z = Zones[1] THEN f ELSE Rotate(f, k)]
    /\ InitRun

Spec == Init /\ [][Next]_vars

-----------------------------------------------------------------------------
(* The window sweep on its own: every `now` on a window boundary, half a   *)
(* minute and half a day into a window, over an upstream that always       *)
(* answers the same                                                        *)

InitPlan ==
    /\ variant \in Variants
    /\ now \in Nows(variant, MaxWindows, {0, 30, 12 * 3600})
    /\ upstream = [z \in ZoneSet |-> [i \in 1..MaxWindows |-> ContentA]]
    /\ InitRun

SpecPlan == InitPlan /\ [][Next]_vars

\* Window seen from the outside: the loop body is entered.  Window can be
\* taken whenever its guard holds (the outcome without a failure is always
\* there) and it is the only action that appends to `windows`, so within
\* Next a WindowEntered step is a Window step.
WindowEntered ==
    /\ pc = "window"
    /\ current < now
    /\ windows' = Append(windows, NewWindow)

\* run() is sequential and not preempted: the step that can be taken is
\* taken
FairPlan ==
    SpecPlan /\ WF_vars(BeginZone) /\ WF_windows(WindowEntered)
             /\ WF_vars(EndZone) /\ WF_vars(Rerun)

-----------------------------------------------------------------------------
(* The decoders on their own, over every document of a bounded shape *)

BoundedSeq(S, n) == UNION {[1..k -> S] : k \in 0..n}

Texts == [t : {DateTime(2025, 6, 1)}, z : BOOLEAN]

Amounts == {0, 453}

PointSet ==
    [position : {None} \cup {Some(p) : p \in 1..MaxPos},
     value : {None} \cup {Some(a) : a \in Amounts}]

PeriodSet ==
    [start : {None} \cup {Some(x) : x \in Texts},
     resolution : {None} \cup {Some(r) : r \in {"PT15M", "PT60M", "PT30M"}},
     points : BoundedSeq(PointSet, MaxPoints)]

SeriesSet ==
    [ctype : {None} \cup {Some(c) : c \in {"A01", "A07", "A13"}},
     period : {None} \cup {Some(x) : x \in PeriodSet}]

\* the series of the two-series documents
PairSeries ==
    [ctype : {None, Some("A01"), Some("A13")},
     period : {None,
               Some([start |-> None, resolution |-> Some("PT60M"),
                     points |-> <<Point(1, 453)>>]),
               Some([start |-> Some(T0Z), resolution |-> Some("PT60M"),
                     points |-> <<Point(1, 453), Point(1, 20)>>])}]

Bodies ==
    {Malformed, Doc(<<>>)}
        \cup {Doc(<<x>>) : x \in SeriesSet}
        \cup {Doc(<<x, y>>) : x \in PairSeries, y \in PairSeries}

InitDecode ==
    /\ variant \in Variants
    /\ document \in [kind : {"generation", "price"}, body : Bodies]
    /\ decoded = <<>>
    /\ now = Start(variant)
    /\ upstream = <<>>
    /\ store = <<>>
    /\ run = 1
    /\ pc = "decode"
    /\ zi = 1
    /\ current = Start(variant)
    /\ existing = <<>>
    /\ gen_data = <<>>
    /\ price_data = <<>>
    /\ merged = <<>>
    /\ written = <<>>
    /\ windows = <<>>
    /\ faults = 0
    /\ afterFirst = <<>>

\* fetch_generation on a 200 answer carrying the document
DecodeGeneration ==
    /\ pc = "decode"
    /\ document.kind = "generation"
    /\ decoded = <<>>
    /\ decoded' = [result |-> FetchGeneration(variant, "none", document.body)]
    /\ UNCHANGED <<document, pipeVars>>

\* fetch_prices on a 200 answer carrying the document
DecodePrices ==
    /\ pc = "decode"
    /\ document.kind = "price"
    /\ decoded = <<>>
    /\ decoded' = [result |-> FetchPrices(variant, "none", document.body)]
    /\ UNCHANGED <<document, pipeVars>>

\* merge_series on what the decoder returned, the other source being empty
MergeDecoded ==
    /\ pc = "decode"
    /\ variant = "daily"
    /\ DOMAIN decoded = {"result"}
    /\ ~decoded.result.raised
    /\ decoded' = [result |-> decoded.result,
                   merged |-> IF document.kind = "generation"
                              THEN merge_series(decoded.result.value, EmptyPrices)
                              ELSE merge_series(<<>>, decoded.result.value)]
    /\ UNCHANGED <<document, pipeVars>>

NextDecode == DecodeGeneration \/ DecodePrices \/ MergeDecoded

SpecDecode == InitDecode /\ [][NextDecode]_vars

-----------------------------------------------------------------------------
(* The request of the per-day fetches on its own: session.get through the  *)
(* adapter that get_retry_session mounts.  The server answers every        *)
(* request with any status.                                                *)

\* Retry(total=5, ...)
RetryTotal == 5

\* status_forcelist
StatusForcelist == {429, 500, 502, 503, 504}

\* the answers of the server: the retried statuses, a success, and an error
\* that is not retried
Statuses == StatusForcelist \cup {200, 404}

\* a Retry that is never exhausted
ExhaustedNever(used) == FALSE

\* Retry.is_exhausted() after `used` increments: the total is below zero
Exhausted(used) == RetryTotal - used < 0

RetryBodies == {Malformed, ContentA.gen, ContentA.price}

InitRetry ==
    /\ variant = "daily"
    /\ document \in [kind : {"generation", "price"}, body : RetryBodies]
    /\ decoded = [sent |-> 0, retries |-> 0, status |-> 0]
    /\ pc = "request"
    /\ now = Start(variant)
    /\ upstream = <<>>
    /\ store = <<>>
    /\ run = 1
    /\ zi = 1
    /\ current = Start(variant)
    /\ existing = <<>>
    /\ gen_data = <<>>
    /\ price_data = <<>>
    /\ merged = <<>>
    /\ written = <<>>
    /\ windows = <<>>
    /\ faults = 0
    /\ afterFirst = <<>>

\* the adapter sends the GET and the server answers
SendRequest ==
    /\ pc = "request"
    /\ \E status \in Statuses :
          decoded' = [decoded EXCEPT !.sent = @ + 1, !.status = status]
    /\ pc' = "answered"
    /\ UNCHANGED <<variant, now, upstream, store, run, zi, current, existing,
                   gen_data, price_data, merged, written, windows, faults,
                   afterFirst, document>>

\* the status is in the forcelist and the Retry is not exhausted: the
\* adapter sleeps and sends the request again
Backoff ==
    /\ pc = "answered"
    /\ decoded.status \in StatusForcelist
    /\ ~Exhausted(decoded.retries + 1)
    /\ decoded' = [decoded EXCEPT !.retries = @ + 1]
    /\ pc' = "request"
    /\ UNCHANGED <<variant, now, upstream, store, run, zi, current, existing,
                   gen_data, price_data, merged, written, windows, faults,
                   afterFirst, document>>

\* session.get returns the response, or raises when the Retry is exhausted;
\* the fetch goes on to raise_for_status and to the parsing, or returns from
\* its except branch
FetchReturns ==
    /\ pc = "answered"
    /\ decoded.status \in StatusForcelist => Exhausted(decoded.retries + 1)
    /\ LET fault == IF decoded.status \in StatusForcelist THEN "transport"
                    ELSE IF decoded.status = 200 THEN "none"
                    ELSE "status"
           result == IF document.kind = "generation"
                     THEN FetchGeneration(variant, fault, document.body)
                     ELSE FetchPrices(variant, fault, document.body)
       IN  decoded' = [sent |-> decoded.sent, retries |-> decoded.retries,
                       status |-> decoded.status, result |-> result]
    /\ pc' = "returned"
    /\ UNCHANGED <<variant, now, upstream, store, run, zi, current, existing,
                   gen_data, price_data, merged, written, windows, faults,
                   afterFirst, document>>

NextRetry == SendRequest \/ Backoff \/ FetchReturns

SpecRetry == InitRetry /\ [][NextRetry]_vars

-----------------------------------------------------------------------------
(* Properties *)

ZoneWindows(z) ==
    SelectSeq(windows, LAMBDA w : w.zone = z)

\* the zone's sweep has reached `now`
Swept(z) ==
    \/ ~(Start(variant) < now)
    \/ /\ ZoneWindows(z) # <<>>
       /\ ZoneWindows(z)[Len(ZoneWindows(z))].end = now

RunEnded == pc \in {"done", "crashed"}

\* C1: with the upstream content and `now` fixed and no transient failure,
\* when run() has been executed a second time the store is exactly what the
\* first execution left: no record more, no field with another value.
Idempotent ==
    (run >= 2 /\ RunEnded /\ faults = 0) => store = afterFirst

\* a second execution of the per-timestamp run that did write again
IdempotentWitness ==
    /\ variant = "monthly"
    /\ run = 2
    /\ pc = "done"
    /\ faults = 0
    /\ written # <<>>
    /\ store # <<>>

\* the last window belongs to the zone the coverage index was built for,
\* and its merge was reached
MergedThisZone ==
    /\ variant = "monthly"
    /\ windows # <<>>
    /\ windows[Len(windows)].zone = Zones[zi]
    /\ price_data # <<>>

\* the (timestamp, label) pairs decoded for the last window
DecodedPairs ==
    {<<gen_data[i][1], "A75_A16_B16">> : i \in 1..Len(gen_data)}
        \cup UNION {{<<price_data[j][2][i][1], price_data[j][1]>> :
                        i \in 1..Len(price_data[j][2])} : j \in 1..Len(price_data)}

Reported(T, L) == T \in DOMAIN existing /\ L \in existing[T]

Labels(rec) == DOMAIN rec \ {"bidding_zone", "timestamp"}

\* C2: in the per-timestamp run, no label the coverage index reports at T is
\* in the merged record for T, and every decoded (T, L) the index does not
\* report is in the merged record for T.
MergeExclusive ==
    MergedThisZone =>
        /\ \A i \in 1..Len(merged) : \A L \in Labels(merged[i]) :
              ~Reported(merged[i].timestamp, L)
        /\ \A pair \in DecodedPairs :
              ~Reported(pair[1], pair[2]) =>
                  \E i \in 1..Len(merged) :
                      /\ merged[i].timestamp = pair[1]
                      /\ pair[2] \in Labels(merged[i])

\* a window in which one label at T is reported and dropped while another
\* label at the same T is merged
MergeExclusiveWitness ==
    /\ MergedThisZone
    /\ \E pair \in DecodedPairs :
          /\ Reported(pair[1], pair[2])
          /\ \E i \in 1..Len(merged) :
                /\ merged[i].timestamp = pair[1]
                /\ Labels(merged[i]) # {}

\* the key of a stored document or of a record
KeyOf(d) ==
    IF variant = "monthly" THEN <<d.bidding_zone, d.timestamp>> ELSE d._id

\* C3: every upsert of a window leaves the fields of the stored document
\* that the record lacks as they were and gives it every field of the record
\* with the record's value; with no stored document of that key, exactly the
\* record is inserted.
PartialUpsert ==
    [][(pc = "window" /\ windows' # windows) =>
        \A i \in 1..Len(written') :
            LET rec == written'[i]
                olds == {j \in 1..Len(store) : KeyOf(store[j]) = KeyOf(rec)}
                news == {j \in 1..Len(store') : KeyOf(store'[j]) = KeyOf(rec)}
            IN  IF olds = {}
                THEN /\ Cardinality(news) = 1
                     /\ \A j \in news : store'[j] = rec
                ELSE \A j \in olds :
                        /\ \A f \in DOMAIN store[j] \ DOMAIN rec :
                              /\ f \in DOMAIN store'[j]
                              /\ store'[j][f] = store[j][f]
                        /\ \A f \in DOMAIN rec :
                              /\ f \in DOMAIN store'[j]
                              /\ store'[j][f] = rec[f]]_vars

\* an upsert met a stored document holding a field the record lacks
PartialUpsertWitness ==
    \E i \in 1..Len(written), j \in 1..Len(store) :
        /\ KeyOf(store[j]) = KeyOf(written[i])
        /\ DOMAIN store[j] \ DOMAIN written[i] # {}

\* the nominal width: one day, or from the first of a month to the first
\* of the following month
Nominal(w) ==
    IF variant = "daily" THEN w.end = w.start + 24 * 3600
    ELSE LET a == DateOf(w.start)
             b == DateOf(w.end)
         IN  /\ a.day = 1 /\ b.day = 1
             /\ w.start % (24 * 3600) = 0 /\ w.end % (24 * 3600) = 0
             /\ \/ a.month < 12 /\ b.month = a.month + 1 /\ b.year = a.year
                \/ a.month = 12 /\ b.month = 1 /\ b.year = a.year + 1

\* C4: the windows of a zone are contiguous, start at the start instant,
\* have the nominal width except the last, which is clipped to `now`, and
\* once the zone is swept they end at `now`; the daily sweep from 2025-06-01
\* to 2025-06-03T12:00Z is three windows.
WindowCoverage ==
    \A z \in ZoneSet :
        LET w == ZoneWindows(z)
            n == Len(w)
        IN  /\ n > 0 => w[1].start = Start(variant)
            /\ \A i \in 1..n : w[i].start < w[i].end /\ w[i].end <= now
            /\ \A i \in 1..(n - 1) : w[i + 1].start = w[i].end /\ Nominal(w[i])
            /\ n > 0 => (Nominal(w[n]) \/ w[n].end = now)
            /\ (Start(variant) < now /\ (pc = "done" \/ \E i \in 1..(zi - 1) : Zones[i] = z))
                  => w[n].end = now
            /\ (variant = "daily" /\ now = DateTime(2025, 6, 3) + 12 * 3600 /\ pc = "done")
                  => /\ n = 3
                     /\ <<w[1].start, w[1].end>> = <<DateTime(2025, 6, 1), DateTime(2025, 6, 2)>>
                     /\ <<w[2].start, w[2].end>> = <<DateTime(2025, 6, 2), DateTime(2025, 6, 3)>>
                     /\ <<w[3].start, w[3].end>> = <<DateTime(2025, 6, 3), now>>

\* the monthly sweep finished with a clipped third window
WindowCoverageWitness ==
    /\ variant = "monthly"
    /\ pc = "done"
    /\ now = DateTime(2025, 6, 1) + 12 * 3600
    /\ \A z \in ZoneSet : Len(ZoneWindows(z)) = 3

\* C5: every pass through the loop body moves the window start forward, the
\* loop is left only when the window start has reached `now`, and unless a
\* fetch or a write raises, run() finishes every zone.
SweepTerminates ==
    /\ [][(pc = "window" /\ pc' = "window" /\ windows' # windows)
             => current' > current]_vars
    /\ [][(pc = "window" /\ pc' \in {"zone", "done"}) => current >= now]_vars
    /\ ([](pc # "crashed")) => <>(pc = "done" /\ \A z \in ZoneSet : Swept(z))

\* a run that returned after two or more windows for every zone
SweepTerminatesWitness ==
    /\ pc = "done"
    /\ run = 1
    /\ \A z \in ZoneSet : Len(ZoneWindows(z)) >= 2

-----------------------------------------------------------------------------
(* Properties of the decoders *)

Decoded == DOMAIN decoded # {}

\* the periods of the fetched document
Periods ==
    {document.body.series[i].period[1] :
        i \in {j \in 1..Len(document.body.series) :
                  document.body.series[j].period # None}}

\* every period has its start and its resolution
PeriodsComplete ==
    \A per \in Periods : per.start # None /\ per.resolution # None

\* every point has its position and its value
PointsComplete ==
    \A per \in Periods : \A i \in 1..Len(per.points) :
        per.points[i].position # None /\ per.points[i].value # None

\* the timestamps the decoder returned
DecodedStamps ==
    LET v == decoded.result.value IN
    IF document.kind = "generation" THEN {v[i][1] : i \in 1..Len(v)}
    ELSE UNION {{v[j][2][i][1] : i \in 1..Len(v[j][2])} : j \in 1..Len(v)}

\* period start + (position - 1) * minutes, for every point of a period
InstantsAt(per, minutes) ==
    {per.start[1].t + (per.points[i].position[1] - 1) * minutes * 60 :
        i \in {j \in 1..Len(per.points) : per.points[j].position # None}}

\* C6: for 15 and 60-minute periods both decoders emit the instant
\* period start + (position - 1) * resolution with the single UTC marker
\* "Z"; a period starting 2025-06-01T00:00:00Z at 15 minutes has its
\* position 5 at 2025-06-01T01:00:00Z.
TimestampCorrect ==
    (/\ Decoded
     /\ ~decoded.result.raised
     /\ PeriodsComplete
     /\ \A per \in Periods : per.resolution[1] \in {"PT15M", "PT60M"})
    => /\ \A ts \in DecodedStamps :
            /\ ts.sfx = "Z"
            /\ \E per \in Periods :
                  ts.t \in InstantsAt(per, IF per.resolution[1] = "PT15M"
                                           THEN 15 ELSE 60)
       /\ (/\ Len(document.body.series) = 1
           /\ document.body.series[1].ctype = Some("A01")
           /\ document.body.series[1].period =
                 Some([start |-> Some(T0Z), resolution |-> Some("PT15M"),
                       points |-> <<Point(5, 453)>>]))
          => DecodedStamps = {[t |-> DateTime(2025, 6, 1) + 3600, sfx |-> "Z"]}

\* C7: a failure while one zone is processed does not stop the run: when
\* run() ends, every zone of the list has been swept up to `now`.
ZonesIsolated ==
    RunEnded => \A z \in ZoneSet : Swept(z)

\* C8: whatever the fetched document lacks, fetch_generation and
\* fetch_prices return a sequence of points and raise nothing.
DecoderNeverRaises ==
    Decoded => ~decoded.result.raised

\* C9: a period of an unrecognised resolution is decoded with 60-minute
\* spacing and goes through merge_series like a 60-minute period, without
\* an error.
ResolutionFallback ==
    (/\ Decoded
     /\ PeriodsComplete
     /\ PointsComplete
     /\ \A i \in 1..Len(document.body.series) :
           document.body.series[i].ctype \in {None, Some("A01"), Some("A07")}
     /\ \E per \in Periods : per.resolution[1] \notin {"PT15M", "PT60M"})
    => /\ ~decoded.result.raised
       /\ \A ts \in DecodedStamps :
             \E per \in Periods :
                ts.t \in InstantsAt(per, IF per.resolution[1] = "PT15M"
                                         THEN 15 ELSE 60)
       /\ "merged" \in DOMAIN decoded => ~decoded.merged.raised

\* the points of a price series that carry a position and an amount (and,
\* in the per-day pipeline, an amount other than zero)
Priced(ts) ==
    IF ts.ctype = None \/ ts.period = None THEN {}
    ELSE {i \in 1..Len(ts.period[1].points) :
             LET pt == ts.period[1].points[i] IN
             /\ pt.position # None
             /\ pt.value # None
             /\ variant = "daily" => pt.value[1] # 0}

RECURSIVE SumLen(_)
SumLen(d) == IF d = <<>> THEN 0 ELSE Len(Head(d)[2]) + SumLen(Tail(d))

RECURSIVE SumPriced(_)
SumPriced(series) ==
    IF series = <<>> THEN 0
    ELSE Cardinality(Priced(Head(series))) + SumPriced(Tail(series))

\* C10: whatever its contract-type code c, a price TimeSeries has its points
\* returned under the label A44_c; a TimeSeries without a code contributes
\* nothing; no code makes the decoder raise.
OpenPriceLabels ==
    (Decoded /\ document.kind = "price" /\ document.body.wellformed
        /\ PeriodsComplete)
    => /\ ~decoded.result.raised
       /\ \A i \in 1..Len(document.body.series) :
             LET ts == document.body.series[i] IN
             Priced(ts) # {} =>
                /\ DictHas(decoded.result.value, "A44_" \o ts.ctype[1])
                /\ Len(DictGet(decoded.result.value, "A44_" \o ts.ctype[1]))
                      >= Cardinality(Priced(ts))
       /\ SumLen(decoded.result.value) = SumPriced(document.body.series)

-----------------------------------------------------------------------------
(* Properties of the coverage index and of the stored records *)

\* the stored records of zone z
ZoneRecords(z) == {i \in 1..Len(store) : store[i].bidding_zone = z}

\* C11: in the per-timestamp store, the coverage index of a zone has exactly
\* the timestamps of the zone's stored records as keys, and at each
\* timestamp exactly the signal labels the record holds, whatever the
\* contract-type code a price label was derived from.
CoverageIndexExact ==
    variant = "monthly" =>
        \A z \in ZoneSet :
            LET index == get_existing_fields_by_timestamp(store, z) IN
            /\ DOMAIN index = {store[i].timestamp : i \in ZoneRecords(z)}
            /\ \A i \in ZoneRecords(z) :
                  index[store[i].timestamp] = Labels(store[i])

\* the documents the last window fetched
LastContent ==
    LET w == windows[Len(windows)]
    IN  upstream[w.zone][Len(ZoneWindows(w.zone))]

\* the priced points of a price document as <<label, instant, amount>>
PricePointsOf(body) ==
    UNION {LET s == body.series[k] IN
           IF s.ctype = None \/ s.period = None THEN {}
           ELSE LET per == s.period[1] IN
                {<<"A44_" \o s.ctype[1],
                   per.start[1].t + (per.points[i].position[1] - 1)
                       * (IF per.resolution[1] = "PT15M" THEN 15 ELSE 60) * 60,
                   per.points[i].value[1]>> :
                    i \in {j \in 1..Len(per.points) :
                              /\ per.points[j].position # None
                              /\ per.points[j].value # None}} :
           k \in 1..Len(body.series)}

\* the price points the decoder returned as <<label, instant, value>>
PriceEntries ==
    UNION {{<<price_data[j][1], price_data[j][2][i][1].t, price_data[j][2][i][2]>> :
               i \in 1..Len(price_data[j][2])} : j \in 1..Len(price_data)}

\* the price labels of a merged or stored entry
PriceLabelsOf(rec) == DOMAIN rec \ {"bidding_zone", "timestamp", "A75_A16_B16"}

\* the resolution arrays of a merge result or of a day document
Arrays(doc) == DOMAIN doc \cap {"PT15M", "PT60M"}

\* no entry of the resolution arrays of doc holds a price of zero
NoZeroPrice(doc) ==
    \A res \in Arrays(doc) : \A i \in 1..Len(doc[res]) :
        \A L \in PriceLabelsOf(doc[res][i]) : doc[res][i][L] # 0

\* the last window of the per-day run went through without a failure
DayWindowDone ==
    /\ variant = "daily"
    /\ windows # <<>>
    /\ faults = 0
    /\ pc # "crashed"

\* C12: in the per-day pipeline a price point of amount 0 is in neither the
\* decoder's output, nor the merged record, nor the stored document, and
\* every price point of another amount is in all three.
ZeroFiltered ==
    variant = "daily" =>
        /\ \A e \in PriceEntries : e[3] # 0
        /\ NoZeroPrice(merged)
        /\ \A d \in 1..Len(store) : NoZeroPrice(store[d])
        /\ DayWindowDone =>
              LET w == windows[Len(windows)]
                  kept == {pp \in PricePointsOf(LastContent.price) : pp[3] # 0}
              IN  /\ PriceEntries = {<<pp[1], pp[2], pp[3]>> : pp \in kept}
                  /\ \A pp \in kept :
                        \E res \in Arrays(merged) : \E i \in 1..Len(merged[res]) :
                            /\ merged[res][i].timestamp.t = pp[2]
                            /\ pp[1] \in DOMAIN merged[res][i]
                  /\ \A res \in Arrays(merged) : \A i \in 1..Len(merged[res]) :
                        \A L \in PriceLabelsOf(merged[res][i]) :
                            \E pp \in kept : /\ pp[1] = L
                                             /\ pp[2] = merged[res][i].timestamp.t
                  /\ Arrays(merged) # {} =>
                        \E d \in 1..Len(store) :
                            /\ store[d]._id = [bidding_zone |-> w.zone,
                                               date |-> DayStr(w.start)]
                            /\ \A res \in Arrays(merged) : store[d][res] = merged[res]

\* a day whose price document holds an amount of 0 and another amount was
\* stored
ZeroFilteredWitness ==
    /\ DayWindowDone
    /\ written # <<>>
    /\ \E pp \in PricePointsOf(LastContent.price) : pp[3] = 0
    /\ \E pp \in PricePointsOf(LastContent.price) : pp[3] # 0

\* C13: the store never holds two records of one key, (zone, timestamp) in
\* the per-timestamp pipeline and (zone, date) in the per-day pipeline,
\* however many runs have written and wherever they failed.
KeyUnique ==
    Cardinality({KeyOf(store[i]) : i \in 1..Len(store)}) = Len(store)

\* a later run upserted a day that an earlier run had stored
KeyUniqueWitness ==
    /\ variant = "daily"
    /\ run >= 2
    /\ written # <<>>
    /\ \E d \in 1..Len(afterFirst) : afterFirst[d]._id = written[1]._id

-----------------------------------------------------------------------------
(* Properties of the decoded values *)

\* the values the decoder returned, in tenths
EmittedValues ==
    LET v == decoded.result.value IN
    IF document.kind = "generation" THEN {v[i][2] : i \in 1..Len(v)}
    ELSE UNION {{v[j][2][i][2] : i \in 1..Len(v[j][2])} : j \in 1..Len(v)}

\* the amounts of the document's points that the decoder keeps
KeptAmounts ==
    LET series == document.body.series IN
    IF document.kind = "generation"
    THEN UNION {IF series[k].period = None THEN {}
                ELSE LET pts == series[k].period[1].points
                     IN  {pts[i].value[1] : i \in 1..Len(pts)} :
                k \in 1..Len(series)}
    ELSE UNION {{series[k].period[1].points[i].value[1] : i \in Priced(series[k])} :
                k \in 1..Len(series)}

\* C14: the price decoder returns every amount divided by 10 and the
\* generation decoder returns every quantity as it is; the price amount 453
\* is returned as 45.3.  Values are in tenths: a / 10 is a tenths, a is
\* 10 * a tenths.
PriceScaled ==
    (Decoded /\ ~decoded.result.raised) =>
        IF document.kind = "price"
        THEN /\ \A x \in EmittedValues : \E a \in KeptAmounts : x = a
             /\ \A a \in KeptAmounts : \E x \in EmittedValues : x = a
             /\ 453 \in KeptAmounts => 453 \in EmittedValues
             /\ 4530 \notin EmittedValues
        ELSE /\ \A x \in EmittedValues : \E a \in KeptAmounts : x = 10 * a
             /\ \A a \in KeptAmounts : \E x \in EmittedValues : x = 10 * a

\* a price document with the amount 453 was decoded
PriceScaledWitness ==
    /\ Decoded
    /\ document.kind = "price"
    /\ ~decoded.result.raised
    /\ 453 \in KeptAmounts
    /\ 453 \in EmittedValues

-----------------------------------------------------------------------------
(* Properties of the merge *)

\* the records of the per-timestamp merge at instant T
MergedAt(T) == {i \in 1..Len(merged) : merged[i].timestamp.t = T}

\* C15: in the per-timestamp run, when the generation document and a price
\* document of a window each hold an uncovered point for the same instant,
\* the two decoders return the same key for it and the merge holds one
\* record for that instant, with the generation field and the price field.
MergedByInstant ==
    MergedThisZone =>
        \A g \in 1..Len(gen_data) :
            \A j \in 1..Len(price_data) : \A k \in 1..Len(price_data[j][2]) :
                LET gkey == gen_data[g][1]
                    pkey == price_data[j][2][k][1]
                    label == price_data[j][1]
                IN  (/\ gkey.t = pkey.t
                     /\ ~Reported(gkey, "A75_A16_B16")
                     /\ ~Reported(pkey, label))
                    => /\ gkey = pkey
                       /\ Cardinality(MergedAt(gkey.t)) = 1
                       /\ \A i \in MergedAt(gkey.t) :
                             {"A75_A16_B16", label} \subseteq DOMAIN merged[i]

\* a decoded point as the merge sees it: the record it goes to, its label
\* and its value
Item(entry, label) ==
    [key |-> IF variant = "monthly" THEN <<entry[1]>> ELSE <<entry[3], entry[1]>>,
     label |-> label,
     value |-> entry[2]]

RECURSIVE PriceItems(_)
\* the price points in the order the merge takes them
PriceItems(d) ==
    IF d = <<>> THEN <<>>
    ELSE [i \in 1..Len(Head(d)[2]) |-> Item(Head(d)[2][i], Head(d)[1])]
            \o PriceItems(Tail(d))

\* the decoded points of the last window in processing order
Processed ==
    [i \in 1..Len(gen_data) |-> Item(gen_data[i], "A75_A16_B16")]
        \o PriceItems(price_data)

\* the signal fields of the merge result as <<key, label, value>>
MergedFields ==
    IF variant = "monthly"
    THEN UNION {{<<(<<merged[i].timestamp>>), L, merged[i][L]>> :
                    L \in Labels(merged[i])} : i \in 1..Len(merged)}
    ELSE UNION {UNION {{<<(<<res, merged[res][i].timestamp>>), L, merged[res][i][L]>> :
                          L \in DOMAIN merged[res][i] \ {"timestamp"}} :
                       i \in 1..Len(merged[res])} : res \in DOMAIN merged}

\* the merge of the last window was reached and returned
MergeReturned ==
    IF variant = "monthly" THEN MergedThisZone
    ELSE /\ windows # <<>>
         /\ price_data # <<>>
         /\ LET P == Processed
            IN  \A n \in 1..Len(P) : P[n].key[1] \in {"PT15M", "PT60M"}

\* the point is one the merge takes (the coverage index does not report it)
Taken(item) ==
    variant = "monthly" => ~Reported(item.key[1], item.label)

\* C16: the merge result holds, for every (record key, label) of a decoded
\* point it takes, the value of the point processed last, generation before
\* prices and each list in decoded order, and it holds nothing else: no
\* point changes the value of another label.
LastWriteWins ==
    MergeReturned =>
        LET P == Processed IN
        MergedFields =
            {<<P[n].key, P[n].label, P[n].value>> :
                n \in {m \in 1..Len(P) :
                          /\ Taken(P[m])
                          /\ \A h \in (m + 1)..Len(P) :
                                ~(P[h].key = P[m].key /\ P[h].label = P[m].label)}}

\* two points of one label went to one record with different values
LastWriteWinsWitness ==
    /\ MergeReturned
    /\ \E m \in 1..Len(Processed) : \E h \in (m + 1)..Len(Processed) :
          /\ Taken(Processed[m])
          /\ Processed[h].key = Processed[m].key
          /\ Processed[h].label = Processed[m].label
          /\ Processed[h].value # Processed[m].value
          /\ <<Processed[h].key, Processed[h].label, Processed[h].value>>
                \in MergedFields

-----------------------------------------------------------------------------
(* Properties of the retried request *)

\* what a per-day fetch returns when its request failed
EmptyData == IF document.kind = "generation" THEN <<>> ELSE EmptyPrices

\* what a per-day fetch returns when its request succeeded
Parsed ==
    IF document.kind = "generation" THEN ParseGeneration(variant, document.body)
    ELSE ParsePrices(variant, document.body)

\* C17: a per-day fetch is retried only after a status of 429, 500, 502, 503
\* or 504, and at most 5 times; when the answers keep carrying such a status
\* the fetch returns empty data and raises nothing; an answer of 200, at
\* whichever attempt, ends the retries and is parsed.
RetryBounded ==
    /\ [](/\ decoded.retries <= 5
          /\ decoded.sent <= decoded.retries + 1
          /\ pc = "returned" =>
                /\ ~decoded.result.raised
                /\ decoded.status \in {429, 500, 502, 503, 504} =>
                      /\ decoded.retries = 5
                      /\ decoded.result.value = EmptyData
                /\ decoded.status = 200 => decoded.result = Parsed)
    /\ [][decoded'.retries > decoded.retries =>
             decoded.status \in {429, 500, 502, 503, 504}]_vars
    /\ [][(pc = "answered" /\ decoded.status = 200) => pc' = "returned"]_vars

\* a fetch gave up after its fifth retry was answered 503
RetryBoundedWitness ==
    /\ pc = "returned"
    /\ decoded.retries = 5
    /\ decoded.sent = 6
    /\ decoded.status = 503

-----------------------------------------------------------------------------
(* Properties of the store across runs *)

\* the signal values a collection holds, as <<zone, time, label, value>>
StoredValues(coll) ==
    IF variant = "monthly"
    THEN UNION {{<<coll[d].bidding_zone, coll[d].timestamp, L, coll[d][L]>> :
                    L \in Labels(coll[d])} : d \in 1..Len(coll)}
    ELSE UNION {UNION {UNION {{<<coll[d].bidding_zone, coll[d][res][i].timestamp,
                                 L, coll[d][res][i][L]>> :
                                  L \in DOMAIN coll[d][res][i] \ {"timestamp"}} :
                              i \in 1..Len(coll[d][res])} :
                       res \in Arrays(coll[d])} : d \in 1..Len(coll)}

\* C18: whatever fails in a later run, a fetch that yields empty data for
\* one source included, every (zone, time, label) value the first run
\* stored is still in the store with the same value.
NothingLost ==
    run >= 2 => StoredValues(afterFirst) \subseteq StoredValues(store)

\* the zone in the key of a stored document
KeyZone(d) == IF variant = "monthly" THEN KeyOf(d)[1] ELSE KeyOf(d).bidding_zone

\* the last window decoded no point that the merge takes
NoPointTaken == \A n \in 1..Len(Processed) : ~Taken(Processed[n])

\* C19: a window of zone Z inserts or modifies only documents that have Z
\* in their key and in bidding_zone, leaves every stored document of
\* another zone as it was, and writes nothing when no uncovered point was
\* decoded.
ZoneFrame ==
    [][(pc = "window" /\ windows' # windows) =>
        LET Z == Zones[zi] IN
        /\ Len(store') >= Len(store)
        /\ \A j \in 1..Len(store') :
              (j > Len(store) \/ store'[j] # store[j]) =>
                  /\ store'[j].bidding_zone = Z
                  /\ KeyZone(store'[j]) = Z
        /\ \A j \in 1..Len(store) :
              store[j].bidding_zone # Z => store'[j] = store[j]
        /\ NoPointTaken' => (written' = <<>> /\ store' = store)]_vars

\* a window of the second zone wrote while documents of the first zone
\* were stored
ZoneFrameWitness ==
    /\ zi = 2
    /\ pc = "window"
    /\ windows # <<>>
    /\ windows[Len(windows)].zone = Zones[2]
    /\ written # <<>>
    /\ ZoneRecords(Zones[1]) # {}

====
